---- MODULE Spec2Model ----
(***************************************************************************)
(* Model of ReportesComponent (Frontend/src/app/pages/reportes/reportes.ts) *)
(* as a state machine: the component's fields, the number of HTTP requests  *)
(* in flight and the last request handed to the transport, the pending      *)
(* setTimeout callbacks, and one action per method or callback of the       *)
(* component.  The callbacks of a request read only the component's fields  *)
(* (the url they capture is only logged), so outstanding requests differ    *)
(* only in the order they were issued: inflight counts them, and the i-th   *)
(* is the i-th oldest.                                                      *)
(***************************************************************************)
EXTENDS Integers, Sequences, FiniteSets, TLC

VARIABLES tipoReporte, datosReporte, tituloReporte, loading, error, filtros,
          estadisticasResumen, inflight, peticion, timers

vars == <<tipoReporte, datosReporte, tituloReporte, loading, error, filtros,
          estadisticasResumen, inflight, peticion, timers>>

(* ------------------------------ bounds --------------------------------- *)
\* longest array the backend returns
MaxRows == 2
\* most HTTP requests outstanding at once
MaxInFlight == 2
\* most setTimeout callbacks pending at once
MaxTimers == 1
\* longest array of orders in the orders report taken alone
MaxPedidos == 3

(* --------------------------- JavaScript values -------------------------- *)
\* the values null and undefined, kept apart from every string
null == "<null>"
undefined == "<undefined>"

\* JavaScript truthiness of a string-or-missing value
Truthy(v) == v # "" /\ v # null /\ v # undefined

\* String.prototype.toLowerCase on the strings the model uses
toLowerCase(s) ==
    CASE s = "Activo" -> "activo"
      [] s = "ACTIVO" -> "activo"
      [] s = "PENDING" -> "pending"
      [] s = "Pendiente" -> "pendiente"
      [] s = "Camion" -> "camion"
      [] s = "Entregado" -> "entregado"
      [] s = "IN_TRANSIT" -> "in_transit"
      [] s = "COMPLETADO" -> "completado"
      [] s = "Alta" -> "alta"
      [] OTHER -> s

\* v?.toLowerCase(): undefined when v is null or undefined
optLower(v) == IF v = null \/ v = undefined THEN undefined ELSE toLowerCase(v)

\* tipo.charAt(0).toUpperCase() + tipo.slice(1)
Capitalizar(tipo) ==
    CASE tipo = "pedidos" -> "Pedidos"
      [] tipo = "clientes" -> "Clientes"
      [] tipo = "vehiculos" -> "Vehiculos"
      [] tipo = "conductores" -> "Conductores"
      [] tipo = "otros" -> "Otros"
      [] OTHER -> tipo

(* ------------------------------ constants ------------------------------- *)
apiUrl == "http://localhost:8000/api/v1"

MsgGenerico == "Error al generar el reporte."
MsgSinConexion == "No se puede conectar al servidor. Verifica que este corriendo en http://localhost:8000"
MsgNoEncontrado == "Endpoint no encontrado. Verifica la configuracion del backend."
MsgErrorInterno == "Error interno del servidor: "
MsgSinResultados == "No hay resultados con los filtros aplicados"
MsgSinDatos == "No hay datos para exportar"
MsgPopups == "Por favor permite ventanas emergentes para exportar PDF"
MsgErrorCSV == "Error al exportar CSV"
MsgErrorPDF == "Error al generar vista de impresion"

(* ------------------------------- inputs --------------------------------- *)
\* the categories the page offers, and one that the component does not know;
\* the empty category is the one the component starts with
Categorias == {"pedidos", "clientes", "vehiculos", "conductores"}
Tipos == Categorias \cup {"otros"}

filtrosVacios ==
    [fechaInicio |-> "", fechaFin |-> "", estado |-> "", estadoPedido |-> "",
     tipoVehiculo |-> "", clienteId |-> "", conductorId |-> ""]

\* the filter forms the operator may have typed
FiltrosPosibles ==
    { filtrosVacios,
      [filtrosVacios EXCEPT !.estado = "ACTIVO", !.estadoPedido = "Pendiente",
                            !.tipoVehiculo = "camion",
                            !.fechaInicio = "2024-01-01", !.fechaFin = "2024-01-31"] }

Fila(s, vt) == [status |-> s, vehicle_type |-> vt]

\* the records the backend may return in a response body
Filas == {Fila("Activo", "Camion"), Fila("PENDING", undefined)}

Arreglos(S) == UNION {[1..n -> S] : n \in 0..MaxRows}

\* the failures the transport may report: status, error.detail, message
ErroresHttp ==
    { [status |-> 0, detail |-> undefined, message |-> "Http failure response"],
      [status |-> 404, detail |-> undefined, message |-> "Http failure response"],
      [status |-> 500, detail |-> "fallo", message |-> "Http failure response"],
      [status |-> 400, detail |-> undefined, message |-> "Http failure response"] }

\* no request has been handed to the transport yet
sinPeticion == [url |-> undefined, params |-> <<>>]

(* ------------------------------- Init ----------------------------------- *)
Init ==
    /\ tipoReporte = ""
    /\ datosReporte = <<>>
    /\ tituloReporte = ""
    /\ loading = FALSE
    /\ error = null
    /\ filtros = filtrosVacios
    /\ estadisticasResumen = <<>>
    /\ inflight = 0
    /\ peticion = sinPeticion
    /\ timers = 0

(* --------------------------- seleccionarReporte ------------------------- *)
\* variant: the category switch forgets to clear the message
seleccionarReporte_sinError(tipo) ==
    /\ tipoReporte' = tipo
    /\ datosReporte' = <<>>
    /\ estadisticasResumen' = <<>>
    /\ tituloReporte' = "Reporte de " \o Capitalizar(tipo)
    /\ UNCHANGED <<loading, error, filtros, inflight, peticion, timers>>

\* lines 38-44
seleccionarReporte(tipo) ==
    /\ tipoReporte' = tipo
    /\ datosReporte' = <<>>
    /\ error' = null
    /\ estadisticasResumen' = <<>>
    /\ tituloReporte' = "Reporte de " \o Capitalizar(tipo)
    /\ UNCHANGED <<loading, filtros, inflight, peticion, timers>>

(* ----------------------------- query planning --------------------------- *)
\* variant: for orders the client id is looked at before the date range
planUrl_clientePrimero(tipo, f) ==
    IF tipo = "pedidos" THEN
        IF Truthy(f.clienteId)
            THEN apiUrl \o "/reports/orders-by-client/" \o f.clienteId
        ELSE IF Truthy(f.fechaInicio) /\ Truthy(f.fechaFin)
            THEN apiUrl \o "/reports/orders-by-date"
        ELSE apiUrl \o "/orders"
    ELSE IF tipo = "clientes" THEN apiUrl \o "/clients"
    ELSE IF tipo = "vehiculos" THEN apiUrl \o "/vehicles"
    ELSE IF tipo = "conductores" THEN
        apiUrl \o "/reports/routes-completed-by-driver/"
               \o (IF Truthy(f.conductorId) THEN f.conductorId ELSE "1")
    ELSE ""

\* the URL generarReporte builds (lines 49-77); '' when no branch is taken
planUrl(tipo, f) ==
    IF tipo = "pedidos" THEN
        IF Truthy(f.fechaInicio) /\ Truthy(f.fechaFin)
            THEN apiUrl \o "/reports/orders-by-date"
        ELSE IF Truthy(f.clienteId)
            THEN apiUrl \o "/reports/orders-by-client/" \o f.clienteId
        ELSE apiUrl \o "/orders"
    ELSE IF tipo = "clientes" THEN apiUrl \o "/clients"
    ELSE IF tipo = "vehiculos" THEN apiUrl \o "/vehicles"
    ELSE IF tipo = "conductores" THEN
        apiUrl \o "/reports/routes-completed-by-driver/"
               \o (IF Truthy(f.conductorId) THEN f.conductorId ELSE "1")
    ELSE ""

\* the HttpParams generarReporte builds: a sequence of <<name, value>>
planParams(tipo, f) ==
    IF tipo = "pedidos" /\ Truthy(f.fechaInicio) /\ Truthy(f.fechaFin)
        THEN << <<"start_date", f.fechaInicio>>, <<"end_date", f.fechaFin>> >>
        ELSE <<>>

(* ----------------------------- generarReporte --------------------------- *)
\* the synchronous part: lines 46-81, up to and including http.get
generarReporte ==
    /\ inflight < MaxInFlight
    /\ error' = null
    /\ loading' = TRUE
    /\ peticion' = [url |-> planUrl(tipoReporte, filtros),
                    params |-> planParams(tipoReporte, filtros)]
    /\ inflight' = inflight + 1
    /\ UNCHANGED <<tipoReporte, datosReporte, tituloReporte, filtros,
                   estadisticasResumen, timers>>

(* ------------------------------ catchError ------------------------------ *)
\* the classified message of lines 88-98
mensajeError(err) ==
    IF err.status = 0 THEN MsgSinConexion
    ELSE IF err.status = 404 THEN MsgNoEncontrado
    ELSE IF err.status = 500 THEN
        MsgErrorInterno \o (IF Truthy(err.detail) THEN err.detail ELSE "Error desconocido")
    ELSE IF Truthy(err.detail) THEN err.detail
    ELSE IF Truthy(err.message) THEN err.message
    ELSE MsgGenerico

(* --------------------------- client-side filter ------------------------- *)
estadoMap(k) ==
    CASE k = "en_proceso" -> {"en_proceso", "asignado", "in_transit"}
      [] k = "pendiente" -> {"pendiente", "pending"}
      [] k = "completado" -> {"completado", "entregado", "delivered"}
      [] k = "cancelado" -> {"cancelado", "cancelled"}
      [] OTHER -> {k}

\* variant: the orders filter looks its value up without lower-casing it
filtrar_sinMinusculas(tipo, f, data) ==
    LET porEstado ==
            IF tipo = "clientes" /\ Truthy(f.estado)
                THEN SelectSeq(data, LAMBDA item :
                        optLower(item.status) = toLowerCase(f.estado))
                ELSE data
        porPedido ==
            IF tipo = "pedidos" /\ Truthy(f.estadoPedido)
                THEN SelectSeq(porEstado, LAMBDA item :
                        optLower(item.status) \in estadoMap(f.estadoPedido))
                ELSE porEstado
    IN  IF tipo = "vehiculos" /\ Truthy(f.tipoVehiculo)
            THEN SelectSeq(porPedido, LAMBDA item :
                    optLower(item.vehicle_type) = toLowerCase(f.tipoVehiculo))
            ELSE porPedido

\* lines 110-140: the three filters, each applied under its own category
filtrar(tipo, f, data) ==
    LET porEstado ==
            IF tipo = "clientes" /\ Truthy(f.estado)
                THEN SelectSeq(data, LAMBDA item :
                        optLower(item.status) = toLowerCase(f.estado))
                ELSE data
        porPedido ==
            IF tipo = "pedidos" /\ Truthy(f.estadoPedido)
                THEN SelectSeq(porEstado, LAMBDA item :
                        optLower(item.status) \in estadoMap(toLowerCase(f.estadoPedido)))
                ELSE porEstado
    IN  IF tipo = "vehiculos" /\ Truthy(f.tipoVehiculo)
            THEN SelectSeq(porPedido, LAMBDA item :
                    optLower(item.vehicle_type) = toLowerCase(f.tipoVehiculo))
            ELSE porPedido

(* --------------------------- calcularEstadisticas ----------------------- *)
Stat(l, v) == [label |-> l, value |-> v]

contar(datos, S) == Len(SelectSeq(datos, LAMBDA p : optLower(p.status) \in S))

\* variant: the in-progress count of orders leaves out in_transit
calcularEstadisticas_sinTransito(tipo, datos, previas) ==
    IF tipo = "pedidos" THEN
        << Stat("Total", Len(datos)),
           Stat("Completados", contar(datos, {"completado", "entregado", "delivered"})),
           Stat("En Proceso", contar(datos, {"asignado", "en_proceso"})),
           Stat("Pendientes", contar(datos, {"pendiente", "pending"})) >>
    ELSE IF tipo = "clientes" THEN
        << Stat("Total", Len(datos)),
           Stat("Activos", contar(datos, {"activo"})),
           Stat("Inactivos", Len(datos) - contar(datos, {"activo"})) >>
    ELSE IF tipo = "vehiculos" THEN
        << Stat("Total", Len(datos)),
           Stat("Disponibles", contar(datos, {"disponible"})),
           Stat("No Disponibles", Len(datos) - contar(datos, {"disponible"})) >>
    ELSE IF tipo = "conductores" THEN
        << Stat("Rutas Completadas", Len(datos)) >>
    ELSE previas

\* lines 166-214; an unknown category leaves estadisticasResumen as it was
calcularEstadisticas(tipo, datos, previas) ==
    IF tipo = "pedidos" THEN
        << Stat("Total", Len(datos)),
           Stat("Completados", contar(datos, {"completado", "entregado", "delivered"})),
           Stat("En Proceso", contar(datos, {"asignado", "en_proceso", "in_transit"})),
           Stat("Pendientes", contar(datos, {"pendiente", "pending"})) >>
    ELSE IF tipo = "clientes" THEN
        << Stat("Total", Len(datos)),
           Stat("Activos", contar(datos, {"activo"})),
           Stat("Inactivos", Len(datos) - contar(datos, {"activo"})) >>
    ELSE IF tipo = "vehiculos" THEN
        << Stat("Total", Len(datos)),
           Stat("Disponibles", contar(datos, {"disponible"})),
           Stat("No Disponibles", Len(datos) - contar(datos, {"disponible"})) >>
    ELSE IF tipo = "conductores" THEN
        << Stat("Rutas Completadas", Len(datos)) >>
    ELSE previas

(* ------------------------- the response callbacks ----------------------- *)
\* what the transport may deliver for a request: an array, a null body, or a
\* failure
sinFallo == [status |-> 200, detail |-> undefined, message |-> undefined]

Resultados ==
    {[kind |-> "ok", body |-> b, err |-> sinFallo] : b \in Arreglos(Filas)}
    \cup {[kind |-> "null", body |-> <<>>, err |-> sinFallo]}
    \cup {[kind |-> "error", body |-> <<>>, err |-> e] : e \in ErroresHttp}

\* variant: the informational message does not look at the fetched length
subscribe_sinLongitud(res, previo) ==
    LET datosFiltrados == filtrar(tipoReporte, filtros, res.body)
        vacioPorFiltro == res.kind # "null" /\ Len(datosFiltrados) = 0
    IN  /\ loading' = FALSE
        /\ datosReporte' = datosFiltrados
        /\ estadisticasResumen' =
               calcularEstadisticas(tipoReporte, datosFiltrados, estadisticasResumen)
        /\ IF vacioPorFiltro
              THEN /\ timers < MaxTimers
                   /\ error' = MsgSinResultados
                   /\ timers' = timers + 1
              ELSE /\ error' = previo
                   /\ timers' = timers

\* variant: the callback does not clear loading (only catchError does)
subscribe_sinLoading(res, previo) ==
    LET datosFiltrados == filtrar(tipoReporte, filtros, res.body)
        vacioPorFiltro == res.kind # "null" /\ Len(datosFiltrados) = 0 /\ Len(res.body) > 0
    IN  /\ loading' = (IF res.kind = "error" THEN FALSE ELSE loading)
        /\ datosReporte' = datosFiltrados
        /\ estadisticasResumen' =
               calcularEstadisticas(tipoReporte, datosFiltrados, estadisticasResumen)
        /\ IF vacioPorFiltro
              THEN /\ timers < MaxTimers
                   /\ error' = MsgSinResultados
                   /\ timers' = timers + 1
              ELSE /\ error' = previo
                   /\ timers' = timers

\* variant: the statistics are computed from the body as fetched
subscribe_estadisticasCrudas(res, previo) ==
    LET datosFiltrados == filtrar(tipoReporte, filtros, res.body)
        vacioPorFiltro == res.kind # "null" /\ Len(datosFiltrados) = 0 /\ Len(res.body) > 0
    IN  /\ loading' = FALSE
        /\ datosReporte' = datosFiltrados
        /\ estadisticasResumen' =
               calcularEstadisticas(tipoReporte, res.body, estadisticasResumen)
        /\ IF vacioPorFiltro
              THEN /\ timers < MaxTimers
                   /\ error' = MsgSinResultados
                   /\ timers' = timers + 1
              ELSE /\ error' = previo
                   /\ timers' = timers

\* variant: the informational message is set but its clearing is not scheduled
subscribe_sinTemporizador(res, previo) ==
    LET datosFiltrados == filtrar(tipoReporte, filtros, res.body)
        vacioPorFiltro == res.kind # "null" /\ Len(datosFiltrados) = 0 /\ Len(res.body) > 0
    IN  /\ loading' = FALSE
        /\ datosReporte' = datosFiltrados
        /\ estadisticasResumen' =
               calcularEstadisticas(tipoReporte, datosFiltrados, estadisticasResumen)
        /\ error' = (IF vacioPorFiltro THEN MsgSinResultados ELSE previo)
        /\ timers' = timers

\* the subscribe callback, lines 105-149, run on `res` after the pipe;
\* `previo` is this.error as catchError left it.  A null body becomes []
\* (line 110) and then data.length at line 145 throws after the assignments.
subscribe(res, previo) ==
    LET datosFiltrados == filtrar(tipoReporte, filtros, res.body)
        vacioPorFiltro == res.kind # "null" /\ Len(datosFiltrados) = 0 /\ Len(res.body) > 0
    IN  /\ loading' = FALSE
        /\ datosReporte' = datosFiltrados
        /\ estadisticasResumen' =
               calcularEstadisticas(tipoReporte, datosFiltrados, estadisticasResumen)
        /\ IF vacioPorFiltro
              THEN /\ timers < MaxTimers
                   /\ error' = MsgSinResultados
                   /\ timers' = timers + 1
              ELSE /\ error' = previo
                   /\ timers' = timers

\* the completion of the i-th outstanding request (oldest first) with result
\* `res`: catchError (lines 83-103) on a failure, which sets the message,
\* clears loading and substitutes [], then subscribe, synchronously
respuesta(i, res) ==
    /\ i \in 1..inflight
    /\ inflight' = inflight - 1
    /\ UNCHANGED <<tipoReporte, tituloReporte, filtros, peticion>>
    /\ subscribe(res, IF res.kind = "error" THEN mensajeError(res.err) ELSE error)

(* ------------------------------ the timers ------------------------------ *)
\* a pending setTimeout(() => this.error = null, 3000) fires
temporizador ==
    /\ timers > 0
    /\ timers' = timers - 1
    /\ error' = null
    /\ UNCHANGED <<tipoReporte, datosReporte, tituloReporte, loading, filtros,
                   estadisticasResumen, inflight, peticion>>

(* ------------------------------- filters -------------------------------- *)
limpiarFiltros ==
    /\ filtros' = filtrosVacios
    /\ datosReporte' = <<>>
    /\ estadisticasResumen' = <<>>
    /\ UNCHANGED <<tipoReporte, tituloReporte, loading, error, inflight, peticion, timers>>

\* the operator types into the filter form (two-way binding on filtros)
editarFiltros(f) ==
    /\ f # filtros
    /\ filtros' = f
    /\ UNCHANGED <<tipoReporte, datosReporte, tituloReporte, loading, error,
                   estadisticasResumen, inflight, peticion, timers>>

(* ---------------------------- the table cells --------------------------- *)
\* values of a record field that are not strings: a number, a boolean and a
\* nested object {"a":1,"b":2}, kept apart from every string
numero == "<number 1500>"
verdadero == "<boolean true>"
objeto == "<object a b>"

typeof(v) ==
    CASE v = numero -> "number"
      [] v = verdadero -> "boolean"
      [] v = objeto \/ v = null -> "object"
      [] v = undefined -> "undefined"
      [] OTHER -> "string"

\* the order Object.keys gives the columns of a record
OrdenClaves == <<"status", "vehicle_type", "priority", "value", "created_at">>

\* lines 217-220
getColumnKeys(datos) ==
    IF Len(datos) = 0 THEN <<>>
    ELSE SelectSeq(OrdenClaves, LAMBDA k : k \in DOMAIN datos[1])

\* lines 223-255, for the columns of the model
formatColumnName(key) ==
    CASE key = "status" -> "Estado"
      [] key = "vehicle_type" -> "Tipo Vehiculo"
      [] key = "priority" -> "Prioridad"
      [] key = "value" -> "Valor"
      [] key = "created_at" -> "Fecha Creacion"
      [] OTHER -> key

\* new Date(value).toLocaleString('es-CO', ...): a date and a time separated
\* by a comma, or 'Invalid Date' for what is no date; it does not throw
toLocaleString(value) ==
    CASE value = numero -> "31/12/1969, 07:00 p. m."
      [] value = verdadero -> "31/12/1969, 07:00 p. m."
      [] OTHER -> "Invalid Date"

statusMap(k) ==
    CASE k = "pendiente" -> "Pendiente"
      [] k = "asignado" -> "Asignado"
      [] k = "entregado" -> "Entregado"
      [] k = "cancelado" -> "Cancelado"
      [] k = "activo" -> "Activo"
      [] k = "inactivo" -> "Inactivo"
      [] k = "disponible" -> "Disponible"
      [] OTHER -> undefined

priorityMap(k) ==
    CASE k = "alta" -> "Alta"
      [] k = "media" -> "Media"
      [] k = "baja" -> "Baja"
      [] OTHER -> undefined

\* the outcome of a call: a returned value, or a TypeError thrown
devuelve(v) == [lanza |-> FALSE, valor |-> v]
TypeError == [lanza |-> TRUE, valor |-> undefined]

\* lines 258-311.  value?.toLowerCase() guards only null and undefined: on a
\* number, a boolean or an object the member is undefined and the call throws
getColumnValue(item, key) ==
    LET value == IF key \in DOMAIN item THEN item[key] ELSE undefined
    IN  IF value = null \/ value = undefined THEN devuelve("-")
        ELSE IF key = "created_at" THEN devuelve(toLocaleString(value))
        ELSE IF key = "status" THEN
            IF typeof(value) # "string" THEN TypeError
            ELSE IF Truthy(statusMap(toLowerCase(value)))
                THEN devuelve(statusMap(toLowerCase(value)))
            ELSE devuelve(value)
        ELSE IF key = "priority" THEN
            IF typeof(value) # "string" THEN TypeError
            ELSE IF Truthy(priorityMap(toLowerCase(value)))
                THEN devuelve(priorityMap(toLowerCase(value)))
            ELSE devuelve(value)
        ELSE IF key = "value" /\ typeof(value) = "number" THEN devuelve("$ 1.500,00")
        ELSE IF typeof(value) = "object" THEN devuelve("{\"a\":1,\"b\":2}")
        ELSE devuelve(value)

\* building the table of an export throws: some cell's getColumnValue does
lanzaTabla(datos) ==
    \E n \in 1..Len(datos) : \E c \in 1..Len(getColumnKeys(datos)) :
        getColumnValue(datos[n], getColumnKeys(datos)[c]).lanza

(* ------------------------------ the CSV text ---------------------------- *)
\* a text as the sequence of its pieces: every comma, double quote and line
\* break is a piece of its own, every run of other characters is one piece
coma == ","
comilla == "\""
salto == "\n"

\* String(val) for what getColumnValue returns
String(val) ==
    CASE val = numero -> "1500"
      [] val = verdadero -> "true"
      [] OTHER -> val

\* the pieces of the strings of the model that hold a comma, a double quote
\* or a line break; every other string is a single run
piezas(str) ==
    CASE str = "a,b" -> <<"a", coma, "b">>
      [] str = "a\nb" -> <<"a", salto, "b">>
      [] str = "{\"a\":1,\"b\":2}" ->
            <<"{", comilla, "a", comilla, ":1", coma, comilla, "b", comilla, ":2}">>
      [] str = "$ 1.500,00" -> <<"$ 1.500", coma, "00">>
      [] str = "31/12/1969, 07:00 p. m." -> <<"31/12/1969", coma, " 07:00 p. m.">>
      [] OTHER -> <<str>>

\* Array.prototype.join on texts
join(textos, sep) ==
    LET J[n \in 0..Len(textos)] ==
            IF n = 0 THEN <<>>
            ELSE IF n = 1 THEN textos[1]
            ELSE J[n - 1] \o <<sep>> \o textos[n]
    IN  J[Len(textos)]

\* lines 326-329: a field is wrapped in double quotes when it includes a
\* comma, and written as it is otherwise
campoCsv(row, h) ==
    LET strVal == piezas(String(getColumnValue(row, h).valor))
    IN  IF \E n \in 1..Len(strVal) : strVal[n] = coma
            THEN <<comilla>> \o strVal \o <<comilla>>
            ELSE strVal

\* lines 322-332: the header line and one line per row, joined by line
\* breaks (the byte order mark put in front of it is not part of the table)
csvContent(datos) ==
    LET headers == getColumnKeys(datos)
        cabecera == join([c \in 1..Len(headers) |-> piezas(formatColumnName(headers[c]))], coma)
        linea(row) == join([c \in 1..Len(headers) |-> campoCsv(row, headers[c])], coma)
    IN  join(<<cabecera>> \o [n \in 1..Len(datos) |-> linea(datos[n])], salto)

(* ------------------------------- exports -------------------------------- *)
\* sets this.error and schedules its clearing
avisar(msg) ==
    /\ timers < MaxTimers
    /\ error' = msg
    /\ timers' = timers + 1

\* lines 314-349.  With empty rows: the message and its timer.  Otherwise the
\* CSV is built and downloaded and no field changes, unless a cell throws:
\* the catch block sets its message and timer.
exportarExcel ==
    /\ IF Len(datosReporte) = 0 THEN avisar(MsgSinDatos)
       ELSE IF lanzaTabla(datosReporte) THEN avisar(MsgErrorCSV)
       ELSE UNCHANGED <<error, timers>>
    /\ UNCHANGED <<tipoReporte, datosReporte, tituloReporte, loading, filtros,
                   estadisticasResumen, inflight, peticion>>

\* lines 352-459; `ventana` is what window.open returns: TRUE for a window,
\* FALSE for null (pop-ups blocked).  The table is built before window.open
\* is called, so a cell that throws reaches the catch block first.
exportarPDF(ventana) ==
    /\ IF Len(datosReporte) = 0 THEN avisar(MsgSinDatos)
       ELSE IF lanzaTabla(datosReporte) THEN avisar(MsgErrorPDF)
       ELSE IF ~ventana THEN avisar(MsgPopups)
       ELSE UNCHANGED <<error, timers>>
    /\ UNCHANGED <<tipoReporte, datosReporte, tituloReporte, loading, filtros,
                   estadisticasResumen, inflight, peticion>>

(* -------------------------------- Next ---------------------------------- *)
Seleccionar == \E tipo \in Tipos : seleccionarReporte(tipo)
Respuesta == \E i \in 1..inflight : \E res \in Resultados : respuesta(i, res)
Editar == \E f \in FiltrosPosibles : editarFiltros(f)
PDF == \E ventana \in BOOLEAN : exportarPDF(ventana)

Next ==
    \/ Seleccionar
    \/ generarReporte
    \/ Respuesta
    \/ temporizador
    \/ limpiarFiltros
    \/ Editar
    \/ exportarExcel
    \/ PDF

Spec == Init /\ [][Next]_vars

\* every issued request completes (the transport answers or fails); the
\* operator's own actions are under no obligation
SpecPeticiones == Spec /\ WF_vars(Respuesta)

\* every scheduled setTimeout callback is run by the event loop
SpecTemporizadores == Spec /\ WF_vars(temporizador)

(* ------------------- failures of every classified shape ---------------- *)
\* every combination the classification of lines 88-98 tells apart: the four
\* status branches, error.detail present or not, message present or not
ErroresTodos ==
    { [status |-> st, detail |-> d, message |-> m] :
        st \in {0, 404, 500, 400},
        d \in {undefined, "fallo"},
        m \in {undefined, "Http failure response"} }

fallo(e) == [kind |-> "error", body |-> <<>>, err |-> e]

exito(b) == [kind |-> "ok", body |-> b, err |-> sinFallo]

\* a category has been selected, the filter form filled in and the report
\* requested, once or several times in a row: the requests are outstanding
InitFallos ==
    /\ tipoReporte \in Categorias
    /\ tituloReporte = "Reporte de " \o Capitalizar(tipoReporte)
    /\ filtros \in FiltrosPosibles
    /\ datosReporte = <<>>
    /\ loading = TRUE
    /\ error = null
    /\ estadisticasResumen = <<>>
    /\ inflight \in 1..MaxInFlight
    /\ peticion = [url |-> planUrl(tipoReporte, filtros),
                   params |-> planParams(tipoReporte, filtros)]
    /\ timers = 0

RespuestaExitosa ==
    \E i \in 1..inflight : \E b \in Arreglos(Filas) : respuesta(i, exito(b))

RespuestaFallida ==
    \E i \in 1..inflight : \E e \in ErroresTodos : respuesta(i, fallo(e))

NextFallos == RespuestaExitosa \/ RespuestaFallida \/ temporizador

\* the outstanding requests answered, the transport failing in every shape
SpecFallos == InitFallos /\ [][NextFallos]_vars

(* --------------------- the planner over every filter form -------------- *)
\* every combination of the four filter fields the planner reads, each
\* present or left empty
FiltrosPlan ==
    { [filtrosVacios EXCEPT !.fechaInicio = fi, !.fechaFin = ff,
                            !.clienteId = c, !.conductorId = d] :
        fi \in {"", "2024-01-01"}, ff \in {"", "2024-01-31"},
        c \in {"", "7"}, d \in {"", "3"} }

\* a category has been selected and the filter form filled in
InitPlan ==
    /\ tipoReporte \in Tipos
    /\ tituloReporte = "Reporte de " \o Capitalizar(tipoReporte)
    /\ filtros \in FiltrosPlan
    /\ datosReporte = <<>>
    /\ loading = FALSE
    /\ error = null
    /\ estadisticasResumen = <<>>
    /\ inflight = 0
    /\ peticion = sinPeticion
    /\ timers = 0

NextPlan == generarReporte

SpecPlan == InitPlan /\ [][NextPlan]_vars

(* ------------------------- the orders report --------------------------- *)
\* orders as the backend may return them: a status of each statistics
\* bucket, one of the cancelled bucket, and a record with no status
FilasPedidos ==
    { Fila("Entregado", undefined), Fila("IN_TRANSIT", undefined),
      Fila("PENDING", undefined), Fila("cancelled", undefined),
      Fila(undefined, undefined) }

\* the secondary-status filter: not set, one value per bucket in some
\* letter case, and a value that is no bucket name
EstadosPedido ==
    {"", "en_proceso", "Pendiente", "COMPLETADO", "cancelado", "cancelled"}

\* the orders category has been selected, the status filter chosen and the
\* report requested: its request is outstanding
InitPedidos ==
    /\ tipoReporte = "pedidos"
    /\ tituloReporte = "Reporte de Pedidos"
    /\ filtros \in {[filtrosVacios EXCEPT !.estadoPedido = e] : e \in EstadosPedido}
    /\ datosReporte = <<>>
    /\ loading = TRUE
    /\ error = null
    /\ estadisticasResumen = <<>>
    /\ inflight = 1
    /\ peticion = [url |-> planUrl("pedidos", filtros),
                   params |-> planParams("pedidos", filtros)]
    /\ timers = 0

ArreglosPedidos == UNION {[1..n -> FilasPedidos] : n \in 0..MaxPedidos}

RespuestaPedidos ==
    \E i \in 1..inflight : \E b \in ArreglosPedidos : respuesta(i, exito(b))

NextPedidos == RespuestaPedidos \/ temporizador

SpecPedidos == InitPedidos /\ [][NextPedidos]_vars

(* --------------------------- the table alone --------------------------- *)
\* the columns whose formatting differs, and a value of every shape JSON can
\* carry: null, strings (plain, with a comma, with a line break), a number,
\* a boolean and a nested object
Claves == {"status", "priority", "value", "created_at"}
Valores == {null, "Alta", "a,b", "a\nb", numero, verdadero, objeto}

\* records of one column; a column a record lacks reads as undefined
FilasColumnas == {[k \in {clave} |-> v] : clave \in Claves, v \in Valores}

\* the drivers category (no client-side filter, statistics by length only)
\* has been selected and the report requested
InitColumnas ==
    /\ tipoReporte = "conductores"
    /\ tituloReporte = "Reporte de Conductores"
    /\ filtros = filtrosVacios
    /\ datosReporte = <<>>
    /\ loading = TRUE
    /\ error = null
    /\ estadisticasResumen = <<>>
    /\ inflight = 1
    /\ peticion = [url |-> planUrl("conductores", filtros),
                   params |-> planParams("conductores", filtros)]
    /\ timers = 0

RespuestaColumnas ==
    \E i \in 1..inflight : \E b \in Arreglos(FilasColumnas) : respuesta(i, exito(b))

NextColumnas == RespuestaColumnas \/ exportarExcel \/ PDF \/ temporizador

SpecColumnas == InitColumnas /\ [][NextColumnas]_vars

(* ======================================================================= *)
(*                               Properties                                *)
(* ======================================================================= *)

\* C1: right after seleccionarReporte(tipo), whatever the state before it
\* and whatever tipo, datosReporte is empty, estadisticasResumen is empty and
\* error is null.
C1_SeleccionarLimpia ==
    [][Seleccionar =>
          /\ datosReporte' = <<>>
          /\ estadisticasResumen' = <<>>
          /\ error' = null]_vars

\* the category was switched while the request of the previous category was
\* still outstanding: cleared, and still loading
C1_Testigo ==
    /\ tipoReporte = "otros"
    /\ inflight = 1
    /\ peticion.url = apiUrl \o "/clients"
    /\ loading
    /\ datosReporte = <<>>
    /\ estadisticasResumen = <<>>
    /\ error = null

\* C2 (as claimed): the response to a request is never applied to
\* datosReporte, estadisticasResumen or error once a later request has been
\* issued.
C2_SinRespuestaObsoleta ==
    [][\A i \in 1..inflight : \A res \in Resultados :
          (i < inflight /\ respuesta(i, res)) =>
              UNCHANGED <<datosReporte, estadisticasResumen, error>>]_vars

\* C3: provided every issued request completes, every call of
\* generarReporte (which sets loading) is followed by a state with loading
\* false, and every completion, successful or failed with any status,
\* leaves loading false.
C3_LoadingSeApaga ==
    /\ [][Respuesta => loading' = FALSE]_vars
    /\ loading ~> (loading = FALSE)

\* a request has failed with status 500 and nothing is outstanding: the
\* message is in place and loading is off
C3_Testigo ==
    /\ error = MsgErrorInterno \o "fallo"
    /\ inflight = 0
    /\ loading = FALSE

\* C4 (as claimed): at most one request is in flight in every reachable state.
C4_UnaSolaPeticion == inflight <= 1

\* C5 (as claimed): generarReporte with tipoReporte = '' changes none of
\* loading, error, datosReporte, estadisticasResumen and issues no request.
C5_SinCategoriaNoHaceNada ==
    [][(generarReporte /\ tipoReporte = "") =>
          UNCHANGED <<loading, error, datosReporte, estadisticasResumen, inflight>>]_vars

\* C6 (as claimed): generarReporte with a non-empty category that is none of
\* the four known ones issues no request and leaves the pipeline Ready and
\* empty: loading false, error null, no rows.
C6_CategoriaDesconocidaSinPeticion ==
    [][(generarReporte /\ tipoReporte # "" /\ tipoReporte \notin Categorias) =>
          /\ inflight' = inflight
          /\ loading' = FALSE
          /\ error' = null
          /\ datosReporte' = <<>>]_vars

\* C7 (as claimed): datosReporte is empty right after seleccionarReporte,
\* after limpiarFiltros and after generarReporte is called.
C7_ResultadoVaciado ==
    [][(Seleccionar \/ limpiarFiltros \/ generarReporte) =>
          datosReporte' = <<>>]_vars

\* the aggregate of section 4.3 for a category over a result set, counted
\* over the positions of the rows
Cuenta(filas, S) ==
    Cardinality({i \in 1..Len(filas) : optLower(filas[i].status) \in S})

Agregado(cat, filas) ==
    CASE cat = "pedidos" ->
            << Stat("Total", Len(filas)),
               Stat("Completados", Cuenta(filas, {"completado", "entregado", "delivered"})),
               Stat("En Proceso", Cuenta(filas, {"en_proceso", "asignado", "in_transit"})),
               Stat("Pendientes", Cuenta(filas, {"pendiente", "pending"})) >>
      [] cat = "clientes" ->
            << Stat("Total", Len(filas)),
               Stat("Activos", Cuenta(filas, {"activo"})),
               Stat("Inactivos", Len(filas) - Cuenta(filas, {"activo"})) >>
      [] cat = "vehiculos" ->
            << Stat("Total", Len(filas)),
               Stat("Disponibles", Cuenta(filas, {"disponible"})),
               Stat("No Disponibles", Len(filas) - Cuenta(filas, {"disponible"})) >>
      [] cat = "conductores" -> << Stat("Rutas Completadas", Len(filas)) >>
      [] OTHER -> <<>>

C9_AvisoTransitorio ==
    /\ [][\A i \in 1..inflight : \A b \in Arreglos(Filas) :
            (/\ Len(b) > 0
             /\ filtrar(tipoReporte, filtros, b) = <<>>
             /\ respuesta(i, [kind |-> "ok", body |-> b, err |-> sinFallo])) =>
                /\ loading' = FALSE
                /\ datosReporte' = <<>>
                /\ error' = MsgSinResultados
                /\ timers' > 0]_vars
    /\ (error = MsgSinResultados) ~> (error = null)
    /\ [][temporizador => (error' = null /\ datosReporte' = datosReporte)]_vars

\* the informational message is showing over an empty result, its timer
\* pending
C9_Testigo ==
    /\ error = MsgSinResultados
    /\ datosReporte = <<>>
    /\ loading = FALSE
    /\ timers > 0

\* C10 (as claimed): exportarExcel or exportarPDF on an empty result set
\* leaves category, result set, statistics, loading and error as they were.
C10_ExportarVacioNoCambia ==
    [][((exportarExcel \/ PDF) /\ datosReporte = <<>>) =>
          UNCHANGED <<tipoReporte, datosReporte, estadisticasResumen, loading, error>>]_vars

\* the message section 4.1 prescribes for a failure
Clasificado(e) ==
    CASE e.status = 0 -> MsgSinConexion
      [] e.status = 404 -> MsgNoEncontrado
      [] e.status = 500 /\ Truthy(e.detail) -> MsgErrorInterno \o e.detail
      [] e.status = 500 /\ ~Truthy(e.detail) -> MsgErrorInterno \o "Error desconocido"
      [] e.status \notin {0, 404, 500} /\ Truthy(e.detail) -> e.detail
      [] e.status \notin {0, 404, 500} /\ ~Truthy(e.detail) /\ Truthy(e.message) -> e.message
      [] OTHER -> MsgGenerico

\* C11: when a request fails, whatever its status, detail and message, the
\* completion (the same step whichever outstanding request it is, so the
\* oldest stands for all) leaves loading false, the result set empty and error equal to
\* the classified message; handling the substituted empty result neither
\* clears nor replaces that message.
C11_FalloClasificado ==
    [][\A e \in ErroresTodos :
          (inflight' = inflight - 1 /\ respuesta(1, fallo(e))) =>
              /\ loading' = FALSE
              /\ datosReporte' = <<>>
              /\ error' = Clasificado(e)]_vars

\* a clients request failed with neither detail nor message: the generic
\* message, no rows, statistics over no rows, not loading
C11_Testigo ==
    /\ error = MsgGenerico
    /\ datosReporte = <<>>
    /\ loading = FALSE
    /\ inflight = 0
    /\ tipoReporte = "clientes"
    /\ estadisticasResumen =
          << Stat("Total", 0), Stat("Activos", 0), Stat("Inactivos", 0) >>

\* C12 (as claimed): a category switch leaves loading false, also while a
\* request is in flight.
C12_SeleccionarDejaIdle == [][Seleccionar => loading' = FALSE]_vars

\* the request section 4.2 prescribes for a known category and a filter form
UrlEsperada(cat, f) ==
    LET rango == f.fechaInicio # "" /\ f.fechaFin # ""
    IN  CASE cat = "pedidos" /\ rango -> apiUrl \o "/reports/orders-by-date"
          [] cat = "pedidos" /\ ~rango /\ f.clienteId # "" ->
                apiUrl \o "/reports/orders-by-client/" \o f.clienteId
          [] cat = "pedidos" /\ ~rango /\ f.clienteId = "" -> apiUrl \o "/orders"
          [] cat = "clientes" -> apiUrl \o "/clients"
          [] cat = "vehiculos" -> apiUrl \o "/vehicles"
          [] cat = "conductores" /\ f.conductorId # "" ->
                apiUrl \o "/reports/routes-completed-by-driver/" \o f.conductorId
          [] cat = "conductores" /\ f.conductorId = "" ->
                apiUrl \o "/reports/routes-completed-by-driver/1"

ParamsEsperados(cat, f) ==
    IF cat = "pedidos" /\ f.fechaInicio # "" /\ f.fechaFin # ""
        THEN << <<"start_date", f.fechaInicio>>, <<"end_date", f.fechaFin>> >>
        ELSE <<>>

\* C13: for each of the four categories and every filter form, the request
\* generarReporte hands to the transport is the one the planner rules give in
\* priority order (a complete date range beats a client id, a client id is
\* used when a date is missing, otherwise all orders; drivers default to id
\* "1"), and it carries query parameters only in the date-range case.
C13_PeticionPlanificada ==
    [][(generarReporte /\ tipoReporte \in Categorias) =>
          /\ peticion'.url = UrlEsperada(tipoReporte, filtros)
          /\ peticion'.params = ParamsEsperados(tipoReporte, filtros)]_vars

\* orders with one date missing and a client id: the client endpoint, with
\* no query parameters
C13_Testigo ==
    /\ tipoReporte = "pedidos"
    /\ filtros.fechaInicio = "2024-01-01"
    /\ filtros.fechaFin = ""
    /\ filtros.clienteId = "7"
    /\ inflight = 1
    /\ peticion = [url |-> apiUrl \o "/reports/orders-by-client/7", params |-> <<>>]

\* section 4.3: whether a record's status passes the secondary-status filter f
Coincide(st, f) ==
    /\ st # undefined
    /\ st # null
    /\ LET s == toLowerCase(st)
           k == toLowerCase(f)
       IN  CASE k = "en_proceso" -> s \in {"en_proceso", "asignado", "in_transit"}
             [] k = "pendiente" -> s \in {"pendiente", "pending"}
             [] k = "completado" -> s \in {"completado", "entregado", "delivered"}
             [] k = "cancelado" -> s \in {"cancelado", "cancelled"}
             [] OTHER -> s = k

\* the records of b that pass, in the order of b
Filtrado(f, b) ==
    LET F[n \in 0..Len(b)] ==
            IF n = 0 THEN <<>>
            ELSE IF Coincide(b[n].status, f) THEN Append(F[n - 1], b[n])
            ELSE F[n - 1]
    IN  F[Len(b)]

Completados == {"completado", "entregado", "delivered"}
EnProceso == {"en_proceso", "asignado", "in_transit"}
Pendientes == {"pendiente", "pending"}

lectorInicial == [filas |-> <<>>, fila |-> <<>>, campo |-> <<>>, modo |-> "inicio"]

finCampo(st) == [st EXCEPT !.fila = Append(st.fila, st.campo), !.campo = <<>>,
                           !.modo = "inicio"]

finFila(st) == [st EXCEPT !.filas = Append(st.filas, Append(st.fila, st.campo)),
                          !.fila = <<>>, !.campo = <<>>, !.modo = "inicio"]

leer(st, c) ==
    IF st.modo = "comillas" THEN
        IF c = comilla THEN [st EXCEPT !.modo = "cierre"]
        ELSE [st EXCEPT !.campo = Append(st.campo, c)]
    ELSE IF st.modo = "cierre" /\ c = comilla THEN
        [st EXCEPT !.campo = Append(st.campo, c), !.modo = "comillas"]
    ELSE IF c = coma THEN finCampo(st)
    ELSE IF c = salto THEN finFila(st)
    ELSE IF st.modo = "inicio" /\ c = comilla THEN [st EXCEPT !.modo = "comillas"]
    ELSE [st EXCEPT !.campo = Append(st.campo, c), !.modo = "libre"]

analizarCsv(texto) ==
    LET L[n \in 0..Len(texto)] ==
            IF n = 0 THEN lectorInicial ELSE leer(L[n - 1], texto[n])
    IN  finFila(L[Len(texto)]).filas

\* what the export set out to write: the header labels, then the formatted
\* values row by row and column by column
Escrito(datos) ==
    LET headers == getColumnKeys(datos)
    IN  << [c \in 1..Len(headers) |-> piezas(formatColumnName(headers[c]))] >>
        \o [n \in 1..Len(datos) |->
              [c \in 1..Len(headers) |->
                  piezas(String(getColumnValue(datos[n], headers[c]).valor))]]

\* C16 (as claimed): for every non-empty result set whose export completes,
\* a standard comma-delimited parser reads back from the CSV text exactly the
\* header and the formatted values, row by row and column by column, also
\* when values hold commas, double quotes, line breaks or a serialized
\* nested object.
C16_CsvIdaYVuelta ==
    (datosReporte # <<>> /\ ~lanzaTabla(datosReporte)) =>
        analizarCsv(csvContent(datosReporte)) = Escrito(datosReporte)

\* C17 (as claimed): getColumnValue returns a value and never throws, for
\* every column and every shape of value of the rows shown, a non-string
\* under status or priority included.
C17_ValorTotal ==
    \A n \in 1..Len(datosReporte) : \A k \in Claves :
        ~getColumnValue(datosReporte[n], k).lanza

\* the URLs a request planned under a category may have
UrlsDe(tipo) == {planUrl(tipo, f) : f \in FiltrosPosibles}

\* C18 (as claimed): the response to a request issued before a category
\* switch is discarded: while the last request handed to the transport is
\* one of a known category other than the current one (so none has been
\* issued since the switch), datosReporte and estadisticasResumen are empty.
C18_RespuestaPreviaDescartada ==
    (/\ peticion.url \in UNION {UrlsDe(c) : c \in Categorias}
     /\ peticion.url \notin UrlsDe(tipoReporte)) =>
        /\ datosReporte = <<>>
        /\ estadisticasResumen = <<>>

\* the messages a failed request leaves
MensajesDeFallo == {mensajeError(e) : e \in ErroresHttp}

\* C19 (as claimed): a timer clears only the transient message it was
\* scheduled for: when it fires while the message of a later failed request
\* is showing, that message is still there afterwards.
C19_TemporizadorSoloLoSuyo ==
    [][(temporizador /\ error \in MensajesDeFallo) => error' = error]_vars

\* C20 (as claimed): the client-side filter applied to a response uses the
\* filter values in effect when its generarReporte was called: when the only
\* outstanding request, planned under the current category, is answered
\* with rows b, the result set is b filtered by a filter form that plans
\* that very request.
C20_FiltrosDeLaLlamada ==
    [][\A b \in Arreglos(Filas) :
          (/\ inflight = 1
           /\ tipoReporte \in Categorias
           /\ peticion.url \in UrlsDe(tipoReporte)
           /\ respuesta(1, exito(b))) =>
              \E f \in FiltrosPosibles :
                  /\ planUrl(tipoReporte, f) = peticion.url
                  /\ planParams(tipoReporte, f) = peticion.params
                  /\ datosReporte' = filtrar(tipoReporte, f, b)]_vars

====
